---- MODULE Spec2Model ----
(***************************************************************************)
(* ChainSleuth synthetic transaction dataset generators.                   *)
(*                                                                         *)
(*   generate_synthetic_dataset.py  seven topology generators, a           *)
(*                                  background generator and the assembler *)
(*                                  generate_dataset()                     *)
(*   generate_5_datasets.py         one fan-out/fan-in generator and the   *)
(*                                  assembler generate_dataset(config)     *)
(*                                                                         *)
(* Numbers.  Python floats are modelled in fixed point: an amount is a     *)
(* record [u |-> micro-tokens, n |-> thousandths of a micro-token], so a   *)
(* value is (u + n/1000) * 10^-6 tokens and every product stays inside     *)
(* TLC's 32 bit integers.  round(x, 6) and round(x, 2) are real roundings  *)
(* of that value; an emitted amount is an integer number of micro-tokens.  *)
(* Factors drawn by random.uniform are per-mille rationals p/1000.         *)
(*                                                                         *)
(* Time.  A datetime is [s |-> whole seconds since START_DATE,             *)
(* us |-> microsecond]; isoformat() turns it into the tuple of its         *)
(* fixed-width fields, which is what the assemblers sort on.               *)
(*                                                                         *)
(* Randomness.  Every random draw is an explicit argument of the generator *)
(* that makes it; the actions choose the arguments with \E from bounded    *)
(* families of outcomes.                                                   *)
(***************************************************************************)
EXTENDS Integers, Sequences, FiniteSets, TLC

VARIABLES
    program,            \* which script runs: "unit", "synthetic" or "five"
    cfg,                \* the configuration (module constants / config dict)
    wallets,            \* the wallet pool
    pc,                 \* position of the running script
    i,                  \* index of the running for-loop of generate_dataset
    all_transactions,   \* the assembler's record list
    laundering_count,   \* generate_dataset: len(all_transactions) after step 2
    normal_count,       \* generate_dataset: TARGET_TRANSACTIONS - laundering_count
    ret,                \* what the last generator call returned (or raised)
    source,             \* generate_5_datasets background loop: source
    destination,        \* generate_5_datasets background loop: destination
    order               \* the permutation the final sort applied

vars == <<program, cfg, wallets, pc, i, all_transactions, laundering_count,
          normal_count, ret, source, destination, order>>

----------------------------------------------------------------------------
(* Program constants of generate_synthetic_dataset.py                      *)

MIN_INTERMEDIARIES == 4
MAX_INTERMEDIARIES == 8
LAUNDERING_HOP_MIN_SECONDS == 5
LAUNDERING_HOP_MAX_SECONDS == 300
LAUNDERING_TOKEN_TYPE == "ETH"
TOKEN_TYPES == <<"ETH", "BTC", "USDT", "USDC", "DAI">>

(* Amount bounds, in whole tokens times ten (MIN_NORMAL_AMOUNT is 0.1).    *)
MIN_NORMAL_AMOUNT_X10 == 1
MAX_NORMAL_AMOUNT_X10 == 500
MIN_LAUNDERING_AMOUNT == 10
MAX_LAUNDERING_AMOUNT == 100
(* Fee bounds in percent, MIN_FEE_PERCENT .. MAX_FEE_PERCENT.              *)
MIN_FEE_PERCENT == 1
MAX_FEE_PERCENT == 5

(* END_DATE - START_DATE = 365 days (2024-01-01 .. 2024-12-31), seconds.   *)
TimeSpan == 365 * 86400

----------------------------------------------------------------------------
(* Bounds of the model                                                     *)

\* Positions of a draw vector that vary independently; later positions
\* repeat the draw of the last free position.
MaxFree == 2
\* Number of rotations of a population that random.sample / random.choice
\* may return (each also reversed).
NumShuffles == 2

----------------------------------------------------------------------------
(* Fixed-point arithmetic                                                  *)

Min(a, b) == IF a <= b THEN a ELSE b
Max(a, b) == IF a >= b THEN a ELSE b

\* tenths of a token -> amount
Tenths(t) == [u |-> t * 100000, n |-> 0]
\* whole tokens -> amount
Tokens(t) == [u |-> t * 1000000, n |-> 0]
\* hundredths of a token -> amount
Cents(c) == [u |-> c * 10000, n |-> 0]

\* v * p / q, truncated to a thousandth of a micro-token (q <= 1000, p/q <= 2)
Scale(v, p, q) ==
    LET a   == v.u \div q
        r   == v.u % q
        sub == ((r * 1000 + v.n) * p) \div q
    IN  [u |-> a * p + sub \div 1000, n |-> sub % 1000]

Plus(v, w) ==
    [u |-> v.u + w.u + (v.n + w.n) \div 1000, n |-> (v.n + w.n) % 1000]

\* round(x, 6): to the nearest micro-token, ties to the even one
Round6(v) ==
    IF v.n > 500 \/ (v.n = 500 /\ v.u % 2 = 1) THEN v.u + 1 ELSE v.u

\* round(x, 2): to the nearest hundredth of a token, in micro-tokens
Round2(v) ==
    LET c == v.u \div 10000
        r == v.u % 10000
        up == r > 5000 \/ (r = 5000 /\ v.n > 0) \/ (r = 5000 /\ v.n = 0 /\ c % 2 = 1)
    IN  (IF up THEN c + 1 ELSE c) * 10000

RECURSIVE SumSeq(_)
SumSeq(s) == IF s = <<>> THEN 0 ELSE Head(s) + SumSeq(Tail(s))

Range(s) == {s[k] : k \in 1..Len(s)}

\* no element occurs twice
Distinct(s) == \A a, b \in 1..Len(s) : a # b => s[a] # s[b]

----------------------------------------------------------------------------
(* datetime, timedelta and isoformat()                                     *)

\* t + timedelta(seconds = d), d a whole number of seconds
AddSeconds(t, d) == [s |-> t.s + d, us |-> t.us]

\* t.isoformat(): "YYYY-MM-DDTHH:MM:SS", followed by ".ffffff" only when the
\* microsecond is not 0.  The date is the day number since START_DATE; every
\* field has a fixed width, so strings compare as these tuples do.
IsoFormat(t) ==
    <<t.s \div 86400, (t.s % 86400) \div 3600, (t.s % 3600) \div 60, t.s % 60>>
        \o (IF t.us = 0 THEN <<>> ELSE <<t.us>>)

\* a < b for two isoformat strings (str.__lt__): the first differing field
\* decides, and a proper prefix is smaller
RECURSIVE StrLess(_, _)
StrLess(a, b) ==
    IF b = <<>> THEN FALSE
    ELSE IF a = <<>> THEN TRUE
    ELSE IF Head(a) # Head(b) THEN Head(a) < Head(b)
    ELSE StrLess(Tail(a), Tail(b))

----------------------------------------------------------------------------
(* The random module: every outcome is selected by an explicit key         *)

\* the orders of a population the model lets a shuffle produce
ShuffleKeys == [rot : 0..(NumShuffles - 1), rev : BOOLEAN]

Shuffled(pop, key) ==
    LET len == Len(pop)
        rotated == [k \in 1..len |-> pop[((k - 1 + key.rot) % len) + 1]]
    IN  IF key.rev THEN [k \in 1..len |-> rotated[len + 1 - k]] ELSE rotated

\* the population as it stands, and back to front
FirstKey == [rot |-> 0, rev |-> FALSE]
LastKey == [rot |-> 0, rev |-> TRUE]

\* A faulty variant of Sample: random.choices in place of random.sample, the same
\* position drawn every time
Sample_WithReplacement(pop, k, key) == [j \in 1..k |-> Shuffled(pop, key)[1]]

\* random.sample(pop, k), k <= len(pop): k different positions of pop
Sample(pop, k, key) == SubSeq(Shuffled(pop, key), 1, k)

\* random.choice(pop), pop not empty
Choice(pop, key) == Shuffled(pop, key)[1]

\* [w for w in pop if w not in excluded]
RECURSIVE Without(_, _)
Without(pop, excluded) ==
    IF pop = <<>> THEN <<>>
    ELSE IF Head(pop) \in excluded THEN Without(Tail(pop), excluded)
    ELSE <<Head(pop)>> \o Without(Tail(pop), excluded)

\* the values of the grid G a run draws from: all of them or the lowest
Pick(G, grid) ==
    IF grid = "all" THEN G ELSE {CHOOSE x \in G : \A y \in G : x <= y}

\* n draws from the grid G: the first free ones are independent, the rest
\* repeat the last of them
Draws(n, G, free) ==
    {[k \in 1..n |-> p[Min(k, free)]] : p \in [1..free -> G]}

\* The random.randint delays of one call are drawn together: every delay
\* at the low end of its range or every delay at the high end.
Tempos == {"fast", "slow"}
\* one random.randint(lo, hi)
Delay(tempo, lo, hi) == IF tempo = "fast" THEN lo ELSE hi
\* the n random.randint(lo, hi) of one loop
Gaps(n, tempo, lo, hi) == [k \in 1..n |-> Delay(tempo, lo, hi)]

----------------------------------------------------------------------------
(* Records and the result of a generator call                              *)

\* a row of generate_synthetic_dataset.py
Tx(src, dst, t, amount, token) ==
    [Source_wallet |-> src, Dest_wallet |-> dst, timestamp |-> IsoFormat(t),
     amount |-> amount, token_type |-> token]

\* a row of generate_5_datasets.py (transaction_hash and gas_fee, a fresh
\* uuid and an independent draw that nothing reads, are left out)
Tx5(src, dst, t, amount, token, type) ==
    [from_wallet |-> src, to_wallet |-> dst, amount |-> amount,
     token_type |-> token, timestamp |-> IsoFormat(t), transaction_type |-> type]

\* A faulty variant of Emit: the record is appended and the clock is left
\* where it was
Emit_ClockNotAdvanced(st, src, dst, amount, gap) ==
    [st EXCEPT !.transactions =
                   Append(@, Tx(src, dst, st.current_time, amount, LAUNDERING_TOKEN_TYPE))]

\* transactions.append({...}) followed by current_time += timedelta(seconds=gap)
Emit(st, src, dst, amount, gap) ==
    [st EXCEPT !.transactions =
                   Append(@, Tx(src, dst, st.current_time, amount, LAUNDERING_TOKEN_TYPE)),
               !.current_time = AddSeconds(@, gap)]

\* A call that raised: random.sample on too small a population raises
\* ValueError, random.choice on an empty one IndexError; no list is returned.
Raise(e) == [error |-> e, transactions |-> <<>>, roles |-> <<>>, drawn |-> <<>>]

\* A call that returned its list.  roles are the wallets of the instance in
\* role order and drawn are the counts the call drew (its locals at return).
Return(txs, roles, drawn) ==
    [error |-> "", transactions |-> txs, roles |-> roles, drawn |-> drawn]

----------------------------------------------------------------------------
(* generate_laundering_chain of generate_synthetic_dataset.py              *)

\* random.uniform(0.95, 1.05), per mille
VariationGrid == {950, 1050}
\* random.uniform(MIN_FEE_PERCENT, MAX_FEE_PERCENT), percent
FeePercentGrid == {MIN_FEE_PERCENT, MAX_FEE_PERCENT}
\* random.uniform(MIN_LAUNDERING_AMOUNT, MAX_LAUNDERING_AMOUNT), tokens
LaunderingAmountGrid == {MIN_LAUNDERING_AMOUNT, MAX_LAUNDERING_AMOUNT}

\* amount_per_intermediate * amount_variation
FanOutAmount(amount_per_intermediate, amount_variation) ==
    Scale(amount_per_intermediate, amount_variation, 1000)

\* amount_per_intermediate * (1 - fee_percent), fee_percent = draw / 100
FanInAmount(amount_per_intermediate, fee_percent) ==
    Scale(amount_per_intermediate, 100 - fee_percent, 100)

RECURSIVE FanOutPhase(_, _, _, _, _, _)
FanOutPhase(st, k, source_wallet, intermediaries, per, rnd) ==
    IF k > Len(intermediaries) THEN st
    ELSE FanOutPhase(
             Emit(st, source_wallet, intermediaries[k],
                  Round6(FanOutAmount(per, rnd.variation[k])), rnd.hop_out[k]),
             k + 1, source_wallet, intermediaries, per, rnd)

RECURSIVE FanInPhase(_, _, _, _, _, _)
FanInPhase(st, k, intermediaries, aggregation_wallet, per, rnd) ==
    IF k > Len(intermediaries) THEN st
    ELSE FanInPhase(
             Emit(st, intermediaries[k], aggregation_wallet,
                  Round6(FanInAmount(per, rnd.fee[k])), rnd.hop_in[k]),
             k + 1, intermediaries, aggregation_wallet, per, rnd)

\* rnd: shuffle, num_intermediaries, initial_amount, variation, hop_out,
\*      pause, fee, hop_in
generate_laundering_chain(pool, chain_id, base_timestamp, rnd) ==
    IF MIN_INTERMEDIARIES + MAX_INTERMEDIARIES + 2 > Len(pool) THEN Raise("ValueError")
    ELSE
    LET available_wallets ==
            Sample(pool, MIN_INTERMEDIARIES + MAX_INTERMEDIARIES + 2, rnd.shuffle)
        source_wallet == available_wallets[1]
        num_intermediaries == rnd.num_intermediaries
        intermediaries == SubSeq(available_wallets, 2, 1 + num_intermediaries)
        aggregation_wallet == available_wallets[Len(available_wallets)]
        initial_amount == Tokens(rnd.initial_amount)
        per == Scale(initial_amount, 1, num_intermediaries)
        st0 == [transactions |-> <<>>, current_time |-> base_timestamp]
        st1 == FanOutPhase(st0, 1, source_wallet, intermediaries, per, rnd)
        st2 == [st1 EXCEPT !.current_time = AddSeconds(@, rnd.pause)]
        st3 == FanInPhase(st2, 1, intermediaries, aggregation_wallet, per, rnd)
    IN  Return(st3.transactions,
               <<source_wallet>> \o intermediaries \o <<aggregation_wallet>>,
               <<num_intermediaries>>)

\* the outcomes of the random calls of one generate_laundering_chain call:
\* draw vectors with free independent positions, shuffles among keys
ChainDraws(free, keys, grid) ==
    { [shuffle |-> k, num_intermediaries |-> n, initial_amount |-> a,
       variation |-> v, fee |-> f,
       hop_out |-> Gaps(MAX_INTERMEDIARIES, tm, LAUNDERING_HOP_MIN_SECONDS,
                        LAUNDERING_HOP_MAX_SECONDS),
       pause |-> Delay(tm, 60, 300),
       hop_in |-> Gaps(MAX_INTERMEDIARIES, tm, LAUNDERING_HOP_MIN_SECONDS,
                       LAUNDERING_HOP_MAX_SECONDS)] :
        k \in keys,
        n \in MIN_INTERMEDIARIES..MAX_INTERMEDIARIES,
        a \in Pick(LaunderingAmountGrid, grid),
        v \in Draws(MAX_INTERMEDIARIES, Pick(VariationGrid, grid), free),
        f \in Draws(MAX_INTERMEDIARIES, Pick(FeePercentGrid, grid), free),
        tm \in Tempos }

----------------------------------------------------------------------------
(* generate_circular_pattern                                               *)

\* random.uniform(0.01, 0.03), per mille
CircularFeeGrid == {10, 30}

\* A faulty variant of CircularDest: the index is not wrapped but clamped to the last
\* wallet
CircularDest_NoWrap(cycle_wallets, k) == cycle_wallets[Min(k + 2, Len(cycle_wallets))]

\* dest = cycle_wallets[(i + 1) % cycle_length], i counted from 0
CircularDest(cycle_wallets, k) == cycle_wallets[((k + 1) % Len(cycle_wallets)) + 1]

\* current_amount *= (1 - fee)
AfterFee(current_amount, fee) == Scale(current_amount, 1000 - fee, 1000)

RECURSIVE CircularLoop(_, _, _, _)
CircularLoop(st, k, cycle_wallets, rnd) ==
    IF k >= Len(cycle_wallets) THEN st
    ELSE LET current_amount == AfterFee(st.current_amount, rnd.fee[k + 1])
         IN  CircularLoop(
                 [Emit(st, cycle_wallets[k + 1], CircularDest(cycle_wallets, k),
                       Round6(current_amount), rnd.gap[k + 1])
                    EXCEPT !.current_amount = current_amount],
                 k + 1, cycle_wallets, rnd)

\* rnd: cycle_length, shuffle, initial_amount, fee, gap
generate_circular_pattern(pool, base_timestamp, rnd) ==
    IF rnd.cycle_length > Len(pool) THEN Raise("ValueError")
    ELSE
    LET cycle_wallets == Sample(pool, rnd.cycle_length, rnd.shuffle)
        st0 == [transactions |-> <<>>, current_time |-> base_timestamp,
                current_amount |-> Tokens(rnd.initial_amount)]
    IN  Return(CircularLoop(st0, 0, cycle_wallets, rnd).transactions,
               cycle_wallets, <<rnd.cycle_length>>)

CircularDraws(free, keys, grid) ==
    { [cycle_length |-> n, shuffle |-> k, initial_amount |-> a, fee |-> f,
       gap |-> Gaps(6, tm, 30, 180)] :
        n \in 3..6, k \in keys, a \in Pick(LaunderingAmountGrid, grid),
        f \in Draws(6, Pick(CircularFeeGrid, grid), free), tm \in Tempos }

----------------------------------------------------------------------------
(* generate_peel_chain                                                     *)

\* random.uniform(0.10, 0.20), per mille
PeelGrid == {100, 200}
\* random.uniform(MIN_LAUNDERING_AMOUNT * 3, MAX_LAUNDERING_AMOUNT * 3), tokens
PeelAmountGrid == {MIN_LAUNDERING_AMOUNT * 3, MAX_LAUNDERING_AMOUNT * 3}

\* A faulty variant of AfterPeel: the peel is not applied to the carried amount
AfterPeel_Dropped(current_amount, peel_percent) == current_amount

\* current_amount *= (1 - peel_percent)
AfterPeel(current_amount, peel_percent) == Scale(current_amount, 1000 - peel_percent, 1000)

RECURSIVE PeelLoop(_, _, _, _)
PeelLoop(st, k, chain_wallets, rnd) ==
    IF k >= Len(chain_wallets) - 1 THEN st
    ELSE LET current_amount == AfterPeel(st.current_amount, rnd.peel_percent[k + 1])
         IN  PeelLoop(
                 [Emit(st, chain_wallets[k + 1], chain_wallets[k + 2],
                       Round6(current_amount), rnd.gap[k + 1])
                    EXCEPT !.current_amount = current_amount],
                 k + 1, chain_wallets, rnd)

\* rnd: chain_length, shuffle, initial_amount, peel_percent, gap
generate_peel_chain(pool, base_timestamp, rnd) ==
    IF rnd.chain_length > Len(pool) THEN Raise("ValueError")
    ELSE
    LET chain_wallets == Sample(pool, rnd.chain_length, rnd.shuffle)
        st0 == [transactions |-> <<>>, current_time |-> base_timestamp,
                current_amount |-> Tokens(rnd.initial_amount)]
    IN  Return(PeelLoop(st0, 0, chain_wallets, rnd).transactions,
               chain_wallets, <<rnd.chain_length>>)

PeelDraws(free, keys, grid) ==
    { [chain_length |-> n, shuffle |-> k, initial_amount |-> a,
       peel_percent |-> f, gap |-> Gaps(7, tm, 60, 300)] :
        n \in 5..8, k \in keys, a \in Pick(PeelAmountGrid, grid),
        f \in Draws(7, Pick(PeelGrid, grid), free), tm \in Tempos }

----------------------------------------------------------------------------
(* generate_structuring_pattern                                            *)

\* random.uniform(3, 9.5), tenths of a token
SmallAmountGrid == {30, 95}

RECURSIVE StructuringLoop(_, _, _, _, _)
StructuringLoop(st, k, src, destinations, rnd) ==
    IF k > Len(destinations) THEN st
    ELSE StructuringLoop(
             Emit(st, src, destinations[k],
                  Round6(Tenths(rnd.small_amounts[k])), rnd.gap[k]),
             k + 1, src, destinations, rnd)

\* rnd: source, num_smurfs, shuffle, small_amounts, gap
generate_structuring_pattern(pool, base_timestamp, rnd) ==
    IF pool = <<>> THEN Raise("IndexError")
    ELSE
    LET src == Choice(pool, rnd.source)
        others == Without(pool, {src})
    IN  IF rnd.num_smurfs > Len(others) THEN Raise("ValueError")
        ELSE
        LET destinations == Sample(others, rnd.num_smurfs, rnd.shuffle)
            st0 == [transactions |-> <<>>, current_time |-> base_timestamp]
        IN  Return(StructuringLoop(st0, 1, src, destinations, rnd).transactions,
                   <<src>> \o destinations, <<rnd.num_smurfs>>)

StructuringDraws(free, keys, grid) ==
    { [source |-> c, num_smurfs |-> n, shuffle |-> k, small_amounts |-> a,
       gap |-> Gaps(25, tm, 5, 30)] :
        c \in keys, n \in 15..25, k \in keys,
        a \in Draws(25, Pick(SmallAmountGrid, grid), free), tm \in Tempos }

----------------------------------------------------------------------------
(* generate_passthrough_pattern                                            *)

\* random.uniform(15, 40), tokens
InflowGrid == {15, 40}
\* random.uniform(0.90, 0.95), per mille
OutflowRatioGrid == {900, 950}

\* A faulty variant of AmountPerDest: the outflow ratio is left out
AmountPerDest_NoRatio(total_inflow, outflow_ratio, num_dests) ==
    Scale(total_inflow, 1, num_dests)

\* amount_per_dest = (total_inflow * outflow_ratio) / num_dests
AmountPerDest(total_inflow, outflow_ratio, num_dests) ==
    Scale(Scale(total_inflow, outflow_ratio, 1000), 1, num_dests)

RECURSIVE PassthroughInflow(_, _, _, _, _)
PassthroughInflow(st, k, sources, passthrough_wallet, rnd) ==
    IF k > Len(sources) THEN st
    ELSE LET amount == Tokens(rnd.amount[k])
         IN  PassthroughInflow(
                 [Emit(st, sources[k], passthrough_wallet, Round6(amount), rnd.gap_in[k])
                    EXCEPT !.total_inflow = Plus(@, amount)],
                 k + 1, sources, passthrough_wallet, rnd)

RECURSIVE PassthroughOutflow(_, _, _, _, _, _)
PassthroughOutflow(st, k, dests, passthrough_wallet, amount_per_dest, rnd) ==
    IF k > Len(dests) THEN st
    ELSE PassthroughOutflow(
             Emit(st, passthrough_wallet, dests[k],
                  Round6(Scale(amount_per_dest, rnd.variation[k], 1000)), rnd.gap_out[k]),
             k + 1, dests, passthrough_wallet, amount_per_dest, rnd)

\* rnd: passthrough_wallet, num_sources, num_dests, shuffle_sources,
\*      shuffle_dests, amount, gap_in, pause, outflow_ratio, variation, gap_out
generate_passthrough_pattern(pool, base_timestamp, rnd) ==
    IF pool = <<>> THEN Raise("IndexError")
    ELSE
    LET passthrough_wallet == Choice(pool, rnd.passthrough_wallet)
        others == Without(pool, {passthrough_wallet})
    IN  IF rnd.num_sources > Len(others) THEN Raise("ValueError")
        ELSE
        LET sources == Sample(others, rnd.num_sources, rnd.shuffle_sources)
            rest == Without(pool, {passthrough_wallet} \cup Range(sources))
        IN  IF rnd.num_dests > Len(rest) THEN Raise("ValueError")
            ELSE
            LET dests == Sample(rest, rnd.num_dests, rnd.shuffle_dests)
                st0 == [transactions |-> <<>>, current_time |-> base_timestamp,
                        total_inflow |-> Tokens(0)]
                st1 == PassthroughInflow(st0, 1, sources, passthrough_wallet, rnd)
                st2 == [st1 EXCEPT !.current_time = AddSeconds(@, rnd.pause)]
                amount_per_dest ==
                    AmountPerDest(st1.total_inflow, rnd.outflow_ratio, rnd.num_dests)
                st3 == PassthroughOutflow(st2, 1, dests, passthrough_wallet,
                                          amount_per_dest, rnd)
            IN  Return(st3.transactions,
                       <<passthrough_wallet>> \o sources \o dests,
                       <<rnd.num_sources, rnd.num_dests>>)

PassthroughDraws(free, keys, grid) ==
    { [passthrough_wallet |-> c, num_sources |-> ns, num_dests |-> nd,
       shuffle_sources |-> FirstKey, shuffle_dests |-> FirstKey, amount |-> a,
       gap_in |-> Gaps(6, tm, 10, 60), pause |-> Delay(tm, 30, 120),
       outflow_ratio |-> r, variation |-> v, gap_out |-> Gaps(6, tm, 10, 60)] :
        c \in keys, ns \in 3..6, nd \in 3..6,
        a \in Draws(6, Pick(InflowGrid, grid), free), r \in Pick(OutflowRatioGrid, grid),
        v \in Draws(6, Pick(VariationGrid, grid), free), tm \in Tempos }

----------------------------------------------------------------------------
(* generate_layering_pattern                                               *)

\* random.uniform(MIN_LAUNDERING_AMOUNT * 2, MAX_LAUNDERING_AMOUNT * 2), tokens
LayeringAmountGrid == {MIN_LAUNDERING_AMOUNT * 2, MAX_LAUNDERING_AMOUNT * 2}

\* split_amount / 2 * 0.95
Level1Amount(split_amount) == Scale(Scale(split_amount, 1, 2), 95, 100)
\* split_amount / 6 * 0.9
Level2Amount(split_amount) == Scale(Scale(split_amount, 1, 6), 9, 10)

RECURSIVE LayeringLevel0(_, _, _, _, _, _)
LayeringLevel0(st, k, src, level1, split_amount, rnd) ==
    IF k > Len(level1) THEN st
    ELSE LayeringLevel0(
             Emit(st, src, level1[k],
                  Round6(Scale(split_amount, rnd.variation[k], 1000)), rnd.gap0[k]),
             k + 1, src, level1, split_amount, rnd)

\* for i, l1_wallet in enumerate(level1): for j in range(2): the k-th pass
\* of the nested loops has i = k \div 2 and j = k % 2
RECURSIVE LayeringLevel1(_, _, _, _, _, _)
LayeringLevel1(st, k, level1, level2, split_amount, rnd) ==
    IF k >= 2 * Len(level1) THEN st
    ELSE LayeringLevel1(
             Emit(st, level1[(k \div 2) + 1], level2[(k \div 2) * 2 + (k % 2) + 1],
                  Round6(Level1Amount(split_amount)), rnd.gap1[k + 1]),
             k + 1, level1, level2, split_amount, rnd)

RECURSIVE LayeringLevel2(_, _, _, _, _, _)
LayeringLevel2(st, k, level2, final_dest, split_amount, rnd) ==
    IF k > Len(level2) THEN st
    ELSE LayeringLevel2(
             Emit(st, level2[k], final_dest,
                  Round6(Level2Amount(split_amount)), rnd.gap2[k]),
             k + 1, level2, final_dest, split_amount, rnd)

\* A faulty variant of FinalDestPopulation: the level-2 wallets are not
\* excluded
FinalDestPopulation_Level2Allowed(pool, src, level1, level2) ==
    Without(pool, {src} \cup Range(level1))

\* [w for w in wallets if w != source and w not in level1 and w not in level2]
FinalDestPopulation(pool, src, level1, level2) ==
    Without(pool, {src} \cup Range(level1) \cup Range(level2))

\* rnd: source, shuffle1, shuffle2, final_dest, initial_amount, variation,
\*      gap0, pause1, gap1, pause2, gap2
generate_layering_pattern(pool, base_timestamp, rnd) ==
    IF pool = <<>> THEN Raise("IndexError")
    ELSE
    LET src == Choice(pool, rnd.source)
        pop1 == Without(pool, {src})
    IN  IF 3 > Len(pop1) THEN Raise("ValueError")
        ELSE
        LET level1 == Sample(pop1, 3, rnd.shuffle1)
            pop2 == Without(pool, {src} \cup Range(level1))
        IN  IF 6 > Len(pop2) THEN Raise("ValueError")
            ELSE
            LET level2 == Sample(pop2, 6, rnd.shuffle2)
                pop3 == FinalDestPopulation(pool, src, level1, level2)
            IN  IF pop3 = <<>> THEN Raise("IndexError")
                ELSE
                LET final_dest == Choice(pop3, rnd.final_dest)
                    split_amount == Scale(Tokens(rnd.initial_amount), 1, 3)
                    st0 == [transactions |-> <<>>, current_time |-> base_timestamp]
                    st1 == LayeringLevel0(st0, 1, src, level1, split_amount, rnd)
                    st2 == [st1 EXCEPT !.current_time = AddSeconds(@, rnd.pause1)]
                    st3 == LayeringLevel1(st2, 0, level1, level2, split_amount, rnd)
                    st4 == [st3 EXCEPT !.current_time = AddSeconds(@, rnd.pause2)]
                    st5 == LayeringLevel2(st4, 1, level2, final_dest, split_amount, rnd)
                IN  Return(st5.transactions,
                           <<src>> \o level1 \o level2 \o <<final_dest>>, <<>>)

LayeringDraws(free, keys, grid) ==
    { [source |-> c, shuffle1 |-> FirstKey, shuffle2 |-> k2, final_dest |-> FirstKey,
       initial_amount |-> a, variation |-> v,
       gap0 |-> Gaps(3, tm, 20, 60), pause1 |-> Delay(tm, 120, 300),
       gap1 |-> Gaps(6, tm, 15, 45), pause2 |-> Delay(tm, 180, 400),
       gap2 |-> Gaps(6, tm, 10, 40)] :
        c \in keys, k2 \in keys,
        a \in Pick(LayeringAmountGrid, grid), v \in Draws(3, Pick(VariationGrid, grid), free), tm \in Tempos }

----------------------------------------------------------------------------
(* create_mixer_wallets and generate_mixer_interactions                    *)

\* The two fixed mixer addresses.  A pool address is "0x" and 32 hex digits
\* (uuid4().hex has 32), the mixer addresses are longer, so neither is ever
\* a pool wallet: pool wallets are 1, 2, ... and the mixers 0 and -1.
create_mixer_wallets == <<0, -1>>

\* random.uniform(10, 50), tokens
MixerInGrid == {10, 50}

\* A faulty variant of AmountPerOutput: the 3% mixer fee is not taken
AmountPerOutput_NoFee(total_in_mixer, num_users) ==
    Scale(total_in_mixer, 1, num_users)

\* amount_per_output = (total_in_mixer * 0.97) / num_users
AmountPerOutput(total_in_mixer, num_users) ==
    Scale(Scale(total_in_mixer, 97, 100), 1, num_users)

RECURSIVE MixerInflow(_, _, _, _, _)
MixerInflow(st, k, users, mixer, rnd) ==
    IF k > Len(users) THEN st
    ELSE LET amount == Tokens(rnd.amount[k])
         IN  MixerInflow(
                 [Emit(st, users[k], mixer, Round6(amount), rnd.gap_in[k])
                    EXCEPT !.total_in_mixer = Plus(@, amount)],
                 k + 1, users, mixer, rnd)

RECURSIVE MixerOutflow(_, _, _, _, _, _)
MixerOutflow(st, k, output_wallets, mixer, amount_per_output, rnd) ==
    IF k > Len(output_wallets) THEN st
    ELSE MixerOutflow(
             Emit(st, mixer, output_wallets[k],
                  Round6(Scale(amount_per_output, rnd.variation[k], 1000)), rnd.gap_out[k]),
             k + 1, output_wallets, mixer, amount_per_output, rnd)

\* rnd: num_users, shuffle_users, mixer, amount, gap_in, pause,
\*      shuffle_outputs, variation, gap_out
generate_mixer_interactions(pool, mixer_wallets, base_timestamp, rnd) ==
    IF rnd.num_users > Len(pool) THEN Raise("ValueError")
    ELSE
    LET users == Sample(pool, rnd.num_users, rnd.shuffle_users)
        mixer == Choice(mixer_wallets, rnd.mixer)
        st0 == [transactions |-> <<>>, current_time |-> base_timestamp,
                total_in_mixer |-> Tokens(0)]
        st1 == MixerInflow(st0, 1, users, mixer, rnd)
        st2 == [st1 EXCEPT !.current_time = AddSeconds(@, rnd.pause)]
        rest == Without(pool, Range(users))
    IN  IF rnd.num_users > Len(rest) THEN Raise("ValueError")
        ELSE
        LET output_wallets == Sample(rest, rnd.num_users, rnd.shuffle_outputs)
            amount_per_output == AmountPerOutput(st1.total_in_mixer, rnd.num_users)
            st3 == MixerOutflow(st2, 1, output_wallets, mixer, amount_per_output, rnd)
        IN  Return(st3.transactions, <<mixer>> \o users \o output_wallets,
                   <<rnd.num_users>>)

MixerDraws(free, keys, grid) ==
    { [num_users |-> n, shuffle_users |-> ku, mixer |-> m, amount |-> a,
       gap_in |-> Gaps(7, tm, 30, 180), pause |-> Delay(tm, 600, 1800),
       shuffle_outputs |-> FirstKey, variation |-> v, gap_out |-> Gaps(7, tm, 20, 120)] :
        n \in 4..7, ku \in keys, m \in {FirstKey, LastKey},
        a \in Draws(7, Pick(MixerInGrid, grid), free),
        v \in Draws(7, Pick(VariationGrid, grid), free), tm \in Tempos }

----------------------------------------------------------------------------
(* generate_normal_transaction                                             *)

\* random.uniform(MIN_NORMAL_AMOUNT, MAX_NORMAL_AMOUNT), tenths of a token
NormalAmountGrid == {MIN_NORMAL_AMOUNT_X10, MAX_NORMAL_AMOUNT_X10}

\* rnd: shuffle, amount, token.  One record, returned as a list of one.
generate_normal_transaction(pool, timestamp, rnd) ==
    IF 2 > Len(pool) THEN Raise("ValueError")
    ELSE
    LET pair == Sample(pool, 2, rnd.shuffle)
    IN  Return(<<Tx(pair[1], pair[2], timestamp, Round6(Tenths(rnd.amount)),
                    TOKEN_TYPES[rnd.token])>>,
               pair, <<>>)

NormalDraws(free, keys, grid) ==
    { [shuffle |-> k, amount |-> a, token |-> t] :
        k \in keys, a \in Pick(NormalAmountGrid, grid),
        t \in Pick(1..Len(TOKEN_TYPES), grid) }

----------------------------------------------------------------------------
(* generate_laundering_chain of generate_5_datasets.py                     *)

\* random.uniform(0.95, 1.0), per mille
FeeFactorGrid == {950, 1000}

\* seq[a:b] of Python, 0 <= a <= b: the slice stops at the end of seq
Slice(seq, a, b) == SubSeq(seq, a + 1, Min(b, Len(seq)))

\* current_time += timedelta(seconds=gap) followed by transactions.append({...})
Emit5(st, src, dst, amount, gap) ==
    LET current_time == AddSeconds(st.current_time, gap)
    IN  [transactions |-> Append(st.transactions,
                                 Tx5(src, dst, current_time, amount, "ETH",
                                     "laundering_chain")),
         current_time |-> current_time]

RECURSIVE FanOutPhase5(_, _, _, _, _, _)
FanOutPhase5(st, k, source_wallet, intermediaries, per, rnd) ==
    IF k > Len(intermediaries) THEN st
    ELSE FanOutPhase5(
             Emit5(st, source_wallet, intermediaries[k],
                   Round2(Scale(per, rnd.fee_factor[k], 1000)), rnd.hop_out[k]),
             k + 1, source_wallet, intermediaries, per, rnd)

RECURSIVE FanInPhase5(_, _, _, _, _, _)
FanInPhase5(st, k, intermediaries, aggregation_wallet, per, rnd) ==
    IF k > Len(intermediaries) THEN st
    ELSE FanInPhase5(
             Emit5(st, intermediaries[k], aggregation_wallet,
                   Round2(Scale(per, 92, 100)), rnd.hop_in[k]),
             k + 1, intermediaries, aggregation_wallet, per, rnd)

\* rnd: shuffle, num_intermediaries, initial_amount (hundredths of a token),
\*      fee_factor, hop_out, hop_in
generate_laundering_chain5(pool, chain_id, base_timestamp, config, rnd) ==
    LET available_wallets ==
            Sample(pool, Min(config.max_hops + 2, Len(pool)), rnd.shuffle)
    IN  IF available_wallets = <<>> THEN Raise("IndexError")
        ELSE
        LET source_wallet == available_wallets[1]
            num_intermediaries == rnd.num_intermediaries
            intermediaries == Slice(available_wallets, 1, 1 + num_intermediaries)
            aggregation_wallet == available_wallets[Len(available_wallets)]
            initial_amount == Cents(rnd.initial_amount)
            per == Scale(initial_amount, 1, num_intermediaries)
            st0 == [transactions |-> <<>>, current_time |-> base_timestamp]
            st1 == FanOutPhase5(st0, 1, source_wallet, intermediaries, per, rnd)
            st2 == FanInPhase5(st1, 1, intermediaries, aggregation_wallet, per, rnd)
        IN  Return(st2.transactions,
                   <<source_wallet>> \o intermediaries \o <<aggregation_wallet>>,
                   <<num_intermediaries>>)

\* the outcomes of the random calls of one call under config
ChainDraws5(config, free, keys, grid) ==
    { [shuffle |-> k, num_intermediaries |-> n, initial_amount |-> a,
       fee_factor |-> f, hop_out |-> Gaps(config.max_hops, tm, 5, 300),
       hop_in |-> Gaps(config.max_hops, tm, 60, 3600)] :
        k \in keys, n \in config.min_hops..config.max_hops,
        a \in Pick({config.min_launder, config.max_launder}, grid),
        f \in Draws(config.max_hops, Pick(FeeFactorGrid, grid), free), tm \in Tempos }

\* DATASETS[0], 'small_network.csv': amounts in hundredths of a token, the
\* horizon end_date - start_date (2024-01-01 .. 2024-03-31) in days
SmallNetwork ==
    [min_hops |-> 2, max_hops |-> 4, min_normal |-> 50, max_normal |-> 2500,
     min_launder |-> 500, max_launder |-> 3000,
     tokens |-> <<"ETH", "USDC", "DAI">>, horizon_days |-> 90]

----------------------------------------------------------------------------
(* Calls of one generator on a pool: the specification SpecGen             *)

\* pool sizes of the generator calls
UnitPools == {5, 10, 11, 14, 26}
\* base_timestamp of a call: midnight, the last second of a day with a
\* microsecond part, and the end of the horizon
UnitBaseTimes ==
    {[s |-> 0, us |-> 0], [s |-> 86399, us |-> 500000], [s |-> TimeSpan, us |-> 0]}

NoCall == Raise("")

InitGen ==
    /\ program = "unit"
    /\ \E n \in UnitPools :
         /\ cfg = [NUM_WALLETS |-> n]
         /\ wallets = [k \in 1..n |-> k]
    /\ pc = "idle"
    /\ i = 0
    /\ all_transactions = <<>>
    /\ laundering_count = 0
    /\ normal_count = 0
    /\ ret = NoCall
    /\ source = 0
    /\ destination = 0
    /\ order = <<>>

\* generator name was called and came back with result
Called(name, result) ==
    /\ pc' = name
    /\ ret' = result
    /\ UNCHANGED <<program, cfg, wallets, i, all_transactions, laundering_count,
                   normal_count, source, destination, order>>

CallLaunderingChain ==
    /\ program = "unit"
    /\ pc = "idle"
    /\ \E t \in UnitBaseTimes, rnd \in ChainDraws(MaxFree, ShuffleKeys, "all") :
         Called("laundering_chain", generate_laundering_chain(wallets, 0, t, rnd))

CallCircular ==
    /\ program = "unit"
    /\ pc = "idle"
    /\ \E t \in UnitBaseTimes, rnd \in CircularDraws(MaxFree, ShuffleKeys, "all") :
         Called("circular", generate_circular_pattern(wallets, t, rnd))

CallPeelChain ==
    /\ program = "unit"
    /\ pc = "idle"
    /\ \E t \in UnitBaseTimes, rnd \in PeelDraws(MaxFree, ShuffleKeys, "all") :
         Called("peel_chain", generate_peel_chain(wallets, t, rnd))

CallStructuring ==
    /\ program = "unit"
    /\ pc = "idle"
    /\ \E t \in UnitBaseTimes, rnd \in StructuringDraws(MaxFree, ShuffleKeys, "all") :
         Called("structuring", generate_structuring_pattern(wallets, t, rnd))

CallPassthrough ==
    /\ program = "unit"
    /\ pc = "idle"
    /\ \E t \in UnitBaseTimes, rnd \in PassthroughDraws(MaxFree, ShuffleKeys, "all") :
         Called("passthrough", generate_passthrough_pattern(wallets, t, rnd))

CallLayering ==
    /\ program = "unit"
    /\ pc = "idle"
    /\ \E t \in UnitBaseTimes, rnd \in LayeringDraws(MaxFree, ShuffleKeys, "all") :
         Called("layering", generate_layering_pattern(wallets, t, rnd))

CallMixer ==
    /\ program = "unit"
    /\ pc = "idle"
    /\ \E t \in UnitBaseTimes, rnd \in MixerDraws(MaxFree, ShuffleKeys, "all") :
         Called("mixer", generate_mixer_interactions(wallets, create_mixer_wallets, t, rnd))

CallNormal ==
    /\ program = "unit"
    /\ pc = "idle"
    /\ \E t \in UnitBaseTimes, rnd \in NormalDraws(MaxFree, ShuffleKeys, "all") :
         Called("normal", generate_normal_transaction(wallets, t, rnd))

CallLaunderingChain5 ==
    /\ program = "unit"
    /\ pc = "idle"
    /\ \E t \in UnitBaseTimes, rnd \in ChainDraws5(SmallNetwork, MaxFree, ShuffleKeys, "all") :
         Called("laundering_chain5",
                generate_laundering_chain5(wallets, 0, t, SmallNetwork, rnd))

NextGen ==
    \/ CallLaunderingChain
    \/ CallCircular
    \/ CallLayering
    \/ CallStructuring
    \/ CallPassthrough
    \/ CallPeelChain
    \/ CallMixer
    \/ CallNormal
    \/ CallLaunderingChain5

SpecGen == InitGen /\ [][NextGen]_vars

----------------------------------------------------------------------------
(* list.sort(key=lambda x: x["timestamp"]) and sorted(..., key=...)        *)

\* A faulty variant of InsertByKey: x goes before the first index whose key is not
\* smaller, so before its equals (an unstable sort)
RECURSIVE InsertByKey_BeforeEqual(_, _, _)
InsertByKey_BeforeEqual(perm, x, keys) ==
    IF perm = <<>> THEN <<x>>
    ELSE IF ~StrLess(keys[Head(perm)], keys[x]) THEN <<x>> \o perm
    ELSE <<Head(perm)>> \o InsertByKey_BeforeEqual(Tail(perm), x, keys)

\* Where index x goes in perm, a list of indices already in key order: before
\* the first index whose key is greater than x's, so after every equal key.
RECURSIVE InsertByKey(_, _, _)
InsertByKey(perm, x, keys) ==
    IF perm = <<>> THEN <<x>>
    ELSE IF StrLess(keys[x], keys[Head(perm)]) THEN <<x>> \o perm
    ELSE <<Head(perm)>> \o InsertByKey(Tail(perm), x, keys)

\* the order in which a stable ascending sort leaves the first n positions
RECURSIVE SortedOrder(_, _)
SortedOrder(keys, n) ==
    IF n = 0 THEN <<>> ELSE InsertByKey(SortedOrder(keys, n - 1), n, keys)

\* the sort's permutation of txs: position k of the result held txs[perm[k]]
SortPermutation(txs) ==
    SortedOrder([k \in 1..Len(txs) |-> txs[k].timestamp], Len(txs))

Permuted(txs, perm) == [k \in 1..Len(txs) |-> txs[perm[k]]]

----------------------------------------------------------------------------
(* generate_dataset of generate_synthetic_dataset.py                       *)

\* The module's configuration parameters, as one run sets them.
Config(nw, target, chains, circular, layering, structuring, passthrough, peel, mixer) ==
    [NUM_WALLETS |-> nw, TARGET_TRANSACTIONS |-> target,
     NUM_LAUNDERING_CHAINS |-> chains, NUM_CIRCULAR_PATTERNS |-> circular,
     NUM_LAYERING_PATTERNS |-> layering, NUM_STRUCTURING_PATTERNS |-> structuring,
     NUM_PASSTHROUGH_PATTERNS |-> passthrough, NUM_PEEL_CHAINS |-> peel,
     NUM_MIXER_WALLETS |-> mixer]

\* Configurations of the runs: a chain alone, a chain with one instance of
\* each other pattern, two chains, no chain, and pools too small for a
\* pattern.  Each target is two above the fewest records the patterns make.
SyntheticConfigs ==
    { Config(26, 10, 1, 0, 0, 0, 0, 0, 0),
      Config(26, 13, 1, 1, 0, 0, 0, 0, 0),
      Config(26, 25, 1, 0, 1, 0, 0, 0, 0),
      Config(26, 25, 1, 0, 0, 1, 0, 0, 0),
      Config(26, 16, 1, 0, 0, 0, 1, 0, 0),
      Config(26, 14, 1, 0, 0, 0, 0, 1, 0),
      Config(26, 18, 1, 0, 0, 0, 0, 0, 1),
      Config(14, 18, 2, 0, 0, 0, 0, 0, 0),
      Config(26, 5, 0, 1, 0, 0, 0, 0, 0),
      Config(10, 10, 1, 0, 0, 0, 0, 0, 0),
      Config(14, 25, 1, 0, 0, 1, 0, 0, 0) }

\* START_DATE + timedelta(seconds=random.uniform(0, span)): the start, half
\* a second after it, and the end of the span
UniformTimes(span) ==
    {[s |-> 0, us |-> 0], [s |-> 0, us |-> 500000], [s |-> span, us |-> 0]}

\* the loops of step 2 in program order, with the constant that bounds each
Loops ==
    <<"chains", "circular", "layering", "structuring", "passthrough", "peel", "mixer">>

LoopCount(c, loop) ==
    CASE loop = "chains" -> c.NUM_LAUNDERING_CHAINS
      [] loop = "circular" -> c.NUM_CIRCULAR_PATTERNS
      [] loop = "layering" -> c.NUM_LAYERING_PATTERNS
      [] loop = "structuring" -> c.NUM_STRUCTURING_PATTERNS
      [] loop = "passthrough" -> c.NUM_PASSTHROUGH_PATTERNS
      [] loop = "peel" -> c.NUM_PEEL_CHAINS
      [] loop = "mixer" -> c.NUM_MIXER_WALLETS

\* what follows a loop: the next loop, or the count of step 2's records
AfterLoop(loop) ==
    LET k == CHOOSE j \in 1..Len(Loops) : Loops[j] = loop
    IN  IF k < Len(Loops) THEN Loops[k + 1] ELSE "count"

\* A faulty variant of NormalCount: one background record too few
NormalCount_OffByOne(target, count) == target - count - 1

\* normal_count = TARGET_TRANSACTIONS - laundering_count
NormalCount(target, count) == target - count

\* chain_start = START_DATE + i * time_per_chain * 5 + uniform(0, time_per_chain * 3),
\* time_per_chain = time_span / (NUM_LAUNDERING_CHAINS * 5)
ChainStarts(k, num_chains) ==
    {AddSeconds(t, k * (TimeSpan \div num_chains)) :
        t \in UniformTimes((3 * (TimeSpan \div num_chains)) \div 5)}

InitSynthetic ==
    /\ program = "synthetic"
    /\ cfg \in SyntheticConfigs
    /\ wallets = [k \in 1..cfg.NUM_WALLETS |-> k]
    /\ pc = "start"
    /\ i = 0
    /\ all_transactions = <<>>
    /\ laundering_count = 0
    /\ normal_count = 0
    /\ ret = NoCall
    /\ source = 0
    /\ destination = 0
    /\ order = <<>>

\* all_transactions.extend(<call>) in loop, or the exception of the call
Extend(loop, result) ==
    /\ ret' = result
    /\ IF result.error = ""
       THEN /\ all_transactions' = all_transactions \o result.transactions
            /\ i' = i + 1
            /\ pc' = loop
       ELSE /\ pc' = "failed"
            /\ UNCHANGED <<all_transactions, i>>
    /\ UNCHANGED <<program, cfg, wallets, laundering_count, normal_count,
                   source, destination, order>>

\* time_per_chain = time_span / (NUM_LAUNDERING_CHAINS * 5): with no chain
\* configured the division raises ZeroDivisionError
Step2 ==
    /\ program = "synthetic"
    /\ pc = "start"
    /\ IF cfg.NUM_LAUNDERING_CHAINS = 0
       THEN pc' = "failed" /\ ret' = Raise("ZeroDivisionError")
       ELSE pc' = "chains" /\ ret' = ret
    /\ UNCHANGED <<program, cfg, wallets, i, all_transactions, laundering_count,
                   normal_count, source, destination, order>>

Chains ==
    /\ program = "synthetic"
    /\ pc = "chains"
    /\ i < cfg.NUM_LAUNDERING_CHAINS
    /\ \E t \in ChainStarts(i, cfg.NUM_LAUNDERING_CHAINS),
          rnd \in ChainDraws(1, {FirstKey}, "low") :
         Extend("chains", generate_laundering_chain(wallets, i, t, rnd))

Circular ==
    /\ program = "synthetic"
    /\ pc = "circular"
    /\ i < cfg.NUM_CIRCULAR_PATTERNS
    /\ \E t \in UniformTimes(TimeSpan), rnd \in CircularDraws(1, {FirstKey}, "low") :
         Extend("circular", generate_circular_pattern(wallets, t, rnd))

Layering ==
    /\ program = "synthetic"
    /\ pc = "layering"
    /\ i < cfg.NUM_LAYERING_PATTERNS
    /\ \E t \in UniformTimes(TimeSpan), rnd \in LayeringDraws(1, {FirstKey}, "low") :
         Extend("layering", generate_layering_pattern(wallets, t, rnd))

Structuring ==
    /\ program = "synthetic"
    /\ pc = "structuring"
    /\ i < cfg.NUM_STRUCTURING_PATTERNS
    /\ \E t \in UniformTimes(TimeSpan), rnd \in StructuringDraws(1, {FirstKey}, "low") :
         Extend("structuring", generate_structuring_pattern(wallets, t, rnd))

Passthrough ==
    /\ program = "synthetic"
    /\ pc = "passthrough"
    /\ i < cfg.NUM_PASSTHROUGH_PATTERNS
    /\ \E t \in UniformTimes(TimeSpan), rnd \in PassthroughDraws(1, {FirstKey}, "low") :
         Extend("passthrough", generate_passthrough_pattern(wallets, t, rnd))

PeelChains ==
    /\ program = "synthetic"
    /\ pc = "peel"
    /\ i < cfg.NUM_PEEL_CHAINS
    /\ \E t \in UniformTimes(TimeSpan), rnd \in PeelDraws(1, {FirstKey}, "low") :
         Extend("peel", generate_peel_chain(wallets, t, rnd))

Mixers ==
    /\ program = "synthetic"
    /\ pc = "mixer"
    /\ i < cfg.NUM_MIXER_WALLETS
    /\ \E t \in UniformTimes(TimeSpan), rnd \in MixerDraws(1, {FirstKey}, "low") :
         Extend("mixer",
                generate_mixer_interactions(wallets, create_mixer_wallets, t, rnd))

\* a for loop of step 2 is exhausted: on to the next one
LoopDone ==
    /\ program = "synthetic"
    /\ pc \in Range(Loops)
    /\ i >= LoopCount(cfg, pc)
    /\ pc' = AfterLoop(pc)
    /\ i' = 0
    /\ UNCHANGED <<program, cfg, wallets, all_transactions, laundering_count,
                   normal_count, ret, source, destination, order>>

\* laundering_count = len(all_transactions); normal_count = TARGET - laundering_count
CountSuspicious ==
    /\ program = "synthetic"
    /\ pc = "count"
    /\ laundering_count' = Len(all_transactions)
    /\ normal_count' = NormalCount(cfg.TARGET_TRANSACTIONS, Len(all_transactions))
    /\ pc' = "normal"
    /\ UNCHANGED <<program, cfg, wallets, i, all_transactions, ret, source,
                   destination, order>>

\* one pass of for i in range(normal_count)
Normal ==
    /\ program = "synthetic"
    /\ pc = "normal"
    /\ i < normal_count
    /\ \E tx_time \in UniformTimes(TimeSpan),
          rnd \in NormalDraws(1, {FirstKey, LastKey}, "low") :
         Extend("normal", generate_normal_transaction(wallets, tx_time, rnd))

\* range(normal_count) is exhausted (at once when normal_count <= 0):
\* all_transactions.sort(key=timestamp), the file is written, the list returned
SortAndReturn ==
    /\ program = "synthetic"
    /\ pc = "normal"
    /\ i >= normal_count
    /\ order' = SortPermutation(all_transactions)
    /\ all_transactions' = Permuted(all_transactions, order')
    /\ pc' = "done"
    /\ UNCHANGED <<program, cfg, wallets, i, laundering_count, normal_count, ret,
                   source, destination>>

NextSynthetic ==
    \/ Step2
    \/ Chains
    \/ Circular
    \/ Layering
    \/ Structuring
    \/ Passthrough
    \/ PeelChains
    \/ Mixers
    \/ LoopDone
    \/ CountSuspicious
    \/ Normal
    \/ SortAndReturn

----------------------------------------------------------------------------
(* generate_dataset of generate_5_datasets.py                              *)

\* wallets = [generate_wallet_address() for _ in range(num_wallets)]
Pools5 == {0, 1, 2, 3, 7}

\* the config dicts of the runs: DATASETS[0] with small counts
Configs5 ==
    { [name \in DOMAIN SmallNetwork \cup {"num_wallets", "num_chains", "normal_transactions"} |->
          CASE name = "num_wallets" -> nw
            [] name = "num_chains" -> nc
            [] name = "normal_transactions" -> nn
            [] OTHER -> SmallNetwork[name]] :
        nw \in Pools5, nc \in 0..2, nn \in 0..2 }

\* base_time = start_date + timedelta(days=random.randint(0, 364))
BaseTimes5 == {[s |-> d * 86400, us |-> 0] : d \in {0, 364}}

\* start_date + timedelta(seconds=random.randint(0, int((end_date -
\* start_date).total_seconds()))): the start, five seconds in, the end
NormalTimes5(config) ==
    {[s |-> x, us |-> 0] : x \in {0, 5, config.horizon_days * 86400}}

InitFive ==
    /\ program = "five"
    /\ cfg \in Configs5
    /\ wallets = [k \in 1..cfg.num_wallets |-> k]
    /\ pc = "chains5"
    /\ i = 0
    /\ all_transactions = <<>>
    /\ laundering_count = 0
    /\ normal_count = 0
    /\ ret = NoCall
    /\ source = 0
    /\ destination = 0
    /\ order = <<>>

\* one pass of for chain_id in range(config['num_chains'])
Chains5 ==
    /\ program = "five"
    /\ pc = "chains5"
    /\ i < cfg.num_chains
    /\ \E base_time \in BaseTimes5,
          rnd \in ChainDraws5(cfg, 1, {FirstKey, LastKey}, "low") :
         Extend("chains5", generate_laundering_chain5(wallets, i, base_time, cfg, rnd))

ChainsDone5 ==
    /\ program = "five"
    /\ pc = "chains5"
    /\ i >= cfg.num_chains
    /\ pc' = "normal5"
    /\ i' = 0
    /\ UNCHANGED <<program, cfg, wallets, all_transactions, laundering_count,
                   normal_count, ret, source, destination, order>>

\* source = random.choice(wallets); destination = random.choice(wallets)
Choose5 ==
    /\ program = "five"
    /\ pc = "normal5"
    /\ i < cfg.normal_transactions
    /\ IF wallets = <<>>
       THEN /\ pc' = "failed"
            /\ ret' = Raise("IndexError")
            /\ UNCHANGED <<source, destination>>
       ELSE /\ \E ks, kd \in {FirstKey, LastKey} :
                 /\ source' = Choice(wallets, ks)
                 /\ destination' = Choice(wallets, kd)
            /\ pc' = "while5"
            /\ ret' = ret
    /\ UNCHANGED <<program, cfg, wallets, i, all_transactions, laundering_count,
                   normal_count, order>>

\* while destination == source: destination = random.choice(wallets)
Retry5 ==
    /\ program = "five"
    /\ pc = "while5"
    /\ destination = source
    /\ \E kd \in {FirstKey, LastKey} : destination' = Choice(wallets, kd)
    /\ UNCHANGED <<program, cfg, wallets, pc, i, all_transactions, laundering_count,
                   normal_count, ret, source, order>>

\* the rest of the pass: amount, timestamp, all_transactions.append({...})
Append5 ==
    /\ program = "five"
    /\ pc = "while5"
    /\ destination # source
    /\ \E timestamp \in NormalTimes5(cfg), token \in {cfg.tokens[1]} :
         all_transactions' =
             Append(all_transactions,
                    Tx5(source, destination, timestamp, Round2(Cents(cfg.min_normal)),
                        token, "normal"))
    /\ i' = i + 1
    /\ pc' = "normal5"
    /\ UNCHANGED <<program, cfg, wallets, laundering_count, normal_count, ret,
                   source, destination, order>>

\* return sorted(all_transactions, key=lambda x: x['timestamp'])
Sorted5 ==
    /\ program = "five"
    /\ pc = "normal5"
    /\ i >= cfg.normal_transactions
    /\ order' = SortPermutation(all_transactions)
    /\ all_transactions' = Permuted(all_transactions, order')
    /\ pc' = "done"
    /\ UNCHANGED <<program, cfg, wallets, i, laundering_count, normal_count, ret,
                   source, destination>>

NextFive ==
    \/ Chains5
    \/ ChainsDone5
    \/ Choose5
    \/ Retry5
    \/ Append5
    \/ Sorted5

----------------------------------------------------------------------------
(* The two scripts                                                         *)

Init == InitSynthetic \/ InitFive

Next == NextSynthetic \/ NextFive

Spec == Init /\ [][Next]_vars

\* The runs of generate_5_datasets.generate_dataset whose config has
\* num_chains = 0: the chains loop is passed at once and the background loop
\* runs.  A run is one process that keeps executing until it returns or
\* raises: a step that changes the state is taken whenever one stays possible.
InitBackground5 == InitFive /\ cfg.num_chains = 0

NextBackground5 ==
    \/ ChainsDone5
    \/ Choose5
    \/ Retry5
    \/ Append5
    \/ Sorted5

SpecBackgroundFair ==
    InitBackground5 /\ [][NextBackground5]_vars /\ WF_vars(NextBackground5)

----------------------------------------------------------------------------
(* Two runs on one configuration and one seed: the specification SpecSeeded *)

\* uuid.uuid4() reads os.urandom, which random.seed does not set: the
\* addresses of a pool are one of these outcomes, whatever the seed
UuidOutcomes == {0, 100}

\* [generate_wallet_address() for _ in range(num_wallets)] with outcome u
create_wallet_pool(num_wallets, u) == [k \in 1..num_wallets |-> u + k]

\* random.seed(s) fixes every later outcome of the random module: a seed is
\* modelled by the outcomes it yields, in the order a run reads them
SeedsSynthetic ==
    { [chain_start |-> t, chain |-> c, tx_time |-> tt, normal |-> n] :
        t \in ChainStarts(0, 1), c \in ChainDraws(1, {FirstKey}, "low"),
        tt \in UniformTimes(TimeSpan), n \in NormalDraws(1, {FirstKey, LastKey}, "low") }

\* one chain and one background record more than the chain can make
SeededSynthetic ==
    { [script |-> "synthetic", NUM_WALLETS |-> 14, NUM_LAUNDERING_CHAINS |-> 1,
       TARGET_TRANSACTIONS |-> 2 * MAX_INTERMEDIARIES + 1, seed |-> sd] :
        sd \in SeedsSynthetic }

\* the config of a generate_5_datasets.py run: one chain, one background record
SeededConfig5 ==
    [name \in DOMAIN SmallNetwork \cup {"num_wallets", "num_chains", "normal_transactions"} |->
        CASE name = "num_wallets" -> 7
          [] name = "num_chains" -> 1
          [] name = "normal_transactions" -> 1
          [] OTHER -> SmallNetwork[name]]

\* source, then destination until it differs: the seed's outcomes as far as
\* the while loop reads them (at most one retry)
Seeds5 ==
    { [base_time |-> b, chain |-> c, source |-> ks, destination |-> kd, timestamp |-> ts] :
        b \in BaseTimes5, c \in ChainDraws5(SeededConfig5, 1, {FirstKey}, "low"),
        ks \in {FirstKey, LastKey},
        kd \in {<<FirstKey>>, <<LastKey>>, <<FirstKey, LastKey>>, <<LastKey, FirstKey>>},
        ts \in NormalTimes5(SeededConfig5) }

SeededFive ==
    { [script |-> "five", config |-> SeededConfig5, seed |-> sd] :
        sd \in { x \in Seeds5 : /\ x.destination[Len(x.destination)] # x.source
                                /\ \A k \in 1..(Len(x.destination) - 1) :
                                       x.destination[k] = x.source } }

InitSeeded ==
    /\ program = "seeded"
    /\ cfg \in SeededSynthetic \cup SeededFive
    /\ wallets = <<<<>>, <<>>>>
    /\ pc = <<"start", "start">>
    /\ all_transactions = <<<<>>, <<>>>>
    /\ i = 0
    /\ laundering_count = 0
    /\ normal_count = 0
    /\ ret = NoCall
    /\ source = 0
    /\ destination = 0
    /\ order = <<>>

\* run r creates its wallet pool
SeededPool(r) ==
    /\ program = "seeded"
    /\ pc[r] = "start"
    /\ \E u \in UuidOutcomes :
         wallets' = [wallets EXCEPT ![r] =
                        create_wallet_pool(IF cfg.script = "five" THEN cfg.config.num_wallets
                                           ELSE cfg.NUM_WALLETS, u)]
    /\ pc' = [pc EXCEPT ![r] = "chains"]
    /\ UNCHANGED <<program, cfg, i, all_transactions, laundering_count, normal_count,
                   ret, source, destination, order>>

\* run r makes its chain from the seed's outcomes
SeededChains(r) ==
    /\ program = "seeded"
    /\ pc[r] = "chains"
    /\ LET result ==
               IF cfg.script = "five"
               THEN generate_laundering_chain5(wallets[r], 0, cfg.seed.base_time,
                                               cfg.config, cfg.seed.chain)
               ELSE generate_laundering_chain(wallets[r], 0, cfg.seed.chain_start,
                                              cfg.seed.chain)
       IN  IF result.error = ""
           THEN /\ all_transactions' = [all_transactions EXCEPT ![r] = result.transactions]
                /\ pc' = [pc EXCEPT ![r] = "normal"]
           ELSE /\ pc' = [pc EXCEPT ![r] = "failed"]
                /\ UNCHANGED all_transactions
    /\ UNCHANGED <<program, cfg, wallets, i, laundering_count, normal_count,
                   ret, source, destination, order>>

\* the background record of generate_5_datasets.generate_dataset
SeededNormal5(pool, config, sd) ==
    Tx5(Choice(pool, sd.source), Choice(pool, sd.destination[Len(sd.destination)]),
        sd.timestamp, Round2(Cents(config.min_normal)), config.tokens[1], "normal")

\* run r adds its background records from the seed's outcomes: one in
\* generate_5_datasets.py, TARGET_TRANSACTIONS - laundering_count of the
\* same draw in generate_synthetic_dataset.py
SeededNormal(r) ==
    /\ program = "seeded"
    /\ pc[r] = "normal"
    /\ LET txs == all_transactions[r]
           one == generate_normal_transaction(wallets[r], cfg.seed.tx_time,
                                              cfg.seed.normal).transactions
           background ==
               IF cfg.script = "five"
               THEN <<SeededNormal5(wallets[r], cfg.config, cfg.seed)>>
               ELSE [k \in 1..Max(0, NormalCount(cfg.TARGET_TRANSACTIONS, Len(txs))) |-> one[1]]
       IN  all_transactions' = [all_transactions EXCEPT ![r] = txs \o background]
    /\ pc' = [pc EXCEPT ![r] = "sort"]
    /\ UNCHANGED <<program, cfg, wallets, i, laundering_count, normal_count,
                   ret, source, destination, order>>

\* run r sorts its list by timestamp and returns it
SeededSort(r) ==
    /\ program = "seeded"
    /\ pc[r] = "sort"
    /\ all_transactions' =
           [all_transactions EXCEPT ![r] = Permuted(@, SortPermutation(@))]
    /\ pc' = [pc EXCEPT ![r] = "done"]
    /\ UNCHANGED <<program, cfg, wallets, i, laundering_count, normal_count,
                   ret, source, destination, order>>

NextSeeded ==
    \E r \in 1..2 :
        \/ SeededPool(r)
        \/ SeededChains(r)
        \/ SeededNormal(r)
        \/ SeededSort(r)

SpecSeeded == InitSeeded /\ [][NextSeeded]_vars

----------------------------------------------------------------------------
(* Properties                                                              *)

\* a record's two wallets, in either script's field names
SrcOf(tx) == IF program = "five" THEN tx.from_wallet ELSE tx.Source_wallet
DstOf(tx) == IF program = "five" THEN tx.to_wallet ELSE tx.Dest_wallet

\* a generator call of SpecGen came back with its list
Returned(name) == pc = name /\ ret.error = ""

\* the instant an isoformat string denotes
ParseIso(ts) ==
    [s |-> ts[1] * 86400 + ts[2] * 3600 + ts[3] * 60 + ts[4],
     us |-> IF Len(ts) > 4 THEN ts[5] ELSE 0]

NotAfter(t1, t2) == t1.s < t2.s \/ (t1.s = t2.s /\ t1.us <= t2.us)

\* C1: every record any generator emits has a source wallet different from
\* its destination wallet, in both assemblers' lists, whatever the pool size.
C1_NoSelfTransfer ==
    \A k \in 1..Len(all_transactions) :
        SrcOf(all_transactions[k]) # DstOf(all_transactions[k])

\* C2: a topology generator call either raises, returning no records, or
\* returns an instance whose role wallets are pairwise distinct and, for the
\* two fan-out/fan-in generators, has as many intermediaries as it drew.
C2_DistinctRolesOrFailure ==
    pc \notin {"idle", "normal"} =>
        \/ ret.error # "" /\ ret.transactions = <<>>
        \/ /\ ret.error = ""
           /\ Distinct(ret.roles)
           /\ pc \in {"laundering_chain", "laundering_chain5"} =>
                  Len(ret.roles) = ret.drawn[1] + 2

\* the first half of a fan-out/fan-in list is the fan-out, the second the fan-in
FanOutSum(r) ==
    SumSeq([k \in 1..(Len(r.transactions) \div 2) |-> r.transactions[k].amount])
FanInSum(r) ==
    SumSeq([k \in 1..(Len(r.transactions) \div 2) |->
               r.transactions[(Len(r.transactions) \div 2) + k].amount])

\* C3: in every fan-out/fan-in instance the fan-in amounts sum to at most
\* the sum of the fan-out amounts.
C3_FanInAtMostFanOut ==
    (Returned("laundering_chain") \/ Returned("laundering_chain5")) =>
        FanInSum(ret) <= FanOutSum(ret)

\* what the pass-through wallet ret.roles[1] received and what it sent
InflowSum(r) ==
    SumSeq([k \in 1..Len(r.transactions) |->
               IF r.transactions[k].Dest_wallet = r.roles[1]
               THEN r.transactions[k].amount ELSE 0])
OutflowSum(r) ==
    SumSeq([k \in 1..Len(r.transactions) |->
               IF r.transactions[k].Source_wallet = r.roles[1]
               THEN r.transactions[k].amount ELSE 0])

\* C4: in every pass-through instance the amounts the pass-through wallet
\* sends sum to at most the sum of the amounts it received.
C4_OutflowAtMostInflow ==
    Returned("passthrough") => OutflowSum(ret) <= InflowSum(ret)

\* a pass-through instance that sends more than 99.7% of what came in: the
\* highest ratio with the highest jitter at every destination
C4_Witness ==
    /\ Returned("passthrough")
    /\ OutflowSum(ret) >= (InflowSum(ret) \div 1000) * 997
    /\ OutflowSum(ret) > 0

\* C5: the list either assembler returns has non-decreasing timestamps over
\* its whole length, and records with equal timestamps are in the order they
\* were added, topology records before background records.
C5_SortedAndStable ==
    pc = "done" =>
        /\ Len(order) = Len(all_transactions)
        /\ Range(order) = 1..Len(all_transactions)
        /\ \A k \in 1..(Len(all_transactions) - 1) :
             LET a == all_transactions[k]
                 b == all_transactions[k + 1]
             IN  /\ NotAfter(ParseIso(a.timestamp), ParseIso(b.timestamp))
                 /\ a.timestamp = b.timestamp =>
                      /\ order[k] < order[k + 1]
                      /\ program = "synthetic" =>
                           ~(order[k] > laundering_count /\ order[k + 1] <= laundering_count)
                      /\ program = "five" =>
                           ~(a.transaction_type = "normal"
                             /\ b.transaction_type = "laundering_chain")

\* a sorted list in which a topology record and a background record share a
\* timestamp and the sort moved records
C5_Witness ==
    /\ pc = "done"
    /\ program = "synthetic"
    /\ \E k \in 1..(Len(all_transactions) - 1) :
         /\ all_transactions[k].timestamp = all_transactions[k + 1].timestamp
         /\ order[k] <= laundering_count
         /\ order[k + 1] > laundering_count
    /\ \E k \in 1..Len(order) : order[k] # k

C7_OverflowFails ==
    (program = "synthetic" /\ laundering_count > cfg.TARGET_TRANSACTIONS) =>
        pc # "done"

\* C8: a circular instance of cycle length L in 3..6 has L records, record k
\* from wallet k to wallet (k + 1) mod L, so the last goes back to the source
\* of the first, with amounts that never increase from a hop to the next.
C8_CircularClosedAndNonIncreasing ==
    Returned("circular") =>
        LET L == ret.drawn[1]
            txs == ret.transactions
        IN  /\ L \in 3..6
            /\ Len(ret.roles) = L
            /\ Len(txs) = L
            /\ \A k \in 1..L :
                 /\ txs[k].Source_wallet = ret.roles[k]
                 /\ txs[k].Dest_wallet = ret.roles[(k % L) + 1]
            /\ txs[L].Dest_wallet = txs[1].Source_wallet
            /\ \A k \in 1..(L - 1) : txs[k + 1].amount <= txs[k].amount

\* a cycle of six whose last amount is below its first
C8_Witness ==
    /\ Returned("circular")
    /\ ret.drawn = <<6>>
    /\ ret.transactions[6].amount < ret.transactions[1].amount

\* C9: a peel chain over n wallets, n in 5..8, has n - 1 records, record k
\* from wallet k to wallet k + 1, with strictly decreasing amounts.
C9_PeelStrictlyDecreasing ==
    Returned("peel_chain") =>
        LET n == ret.drawn[1]
            txs == ret.transactions
        IN  /\ n \in 5..8
            /\ Len(ret.roles) = n
            /\ Len(txs) = n - 1
            /\ \A k \in 1..(n - 1) :
                 /\ txs[k].Source_wallet = ret.roles[k]
                 /\ txs[k].Dest_wallet = ret.roles[k + 1]
            /\ \A k \in 1..(n - 2) : txs[k + 1].amount < txs[k].amount

\* a peel chain over eight wallets
C9_Witness ==
    /\ Returned("peel_chain")
    /\ ret.drawn = <<8>>
    /\ Len(ret.transactions) = 7

\* C10: a structuring instance has one source and 15 to 25 destinations,
\* pairwise distinct and different from the source, one record per
\* destination, every amount below 10 tokens.
C10_StructuringBelowCeiling ==
    Returned("structuring") =>
        LET n == ret.drawn[1]
            txs == ret.transactions
        IN  /\ n \in 15..25
            /\ Len(ret.roles) = n + 1
            /\ Distinct(ret.roles)
            /\ Len(txs) = n
            /\ \A k \in 1..n :
                 /\ txs[k].Source_wallet = ret.roles[1]
                 /\ txs[k].Dest_wallet = ret.roles[k + 1]
                 /\ txs[k].amount < 10 * 1000000

\* a structuring instance with 25 destinations and an amount of 9.5 tokens
C10_Witness ==
    /\ Returned("structuring")
    /\ ret.drawn = <<25>>
    /\ \E k \in 1..25 : ret.transactions[k].amount = 9500000

\* C11 as stated: generate_layering_pattern returns its 15 records on every
\* pool of at least 10 distinct wallets and fails on every smaller pool.
C11_LayeringNeedsTen ==
    pc = "layering" =>
        IF Len(wallets) >= 10
        THEN ret.error = "" /\ Len(ret.transactions) = 15
        ELSE ret.error # "" /\ ret.transactions = <<>>

\* C11, amended: a layering instance has 11 wallet roles (the source, 3
\* level-1 wallets, 6 level-2 wallets and the final destination);
\* generate_layering_pattern returns 15 records with 11 pairwise distinct
\* role wallets on every pool of at least 11 distinct wallets, and raises,
\* returning nothing, on every pool of fewer than 11.
C11_LayeringNeedsEleven ==
    pc = "layering" =>
        IF Len(wallets) >= 11
        THEN /\ ret.error = ""
             /\ Len(ret.transactions) = 15
             /\ Len(ret.roles) = 11
             /\ Distinct(ret.roles)
        ELSE ret.error # "" /\ ret.transactions = <<>>

\* a layering instance made from a pool of exactly 11 wallets
C11_Witness ==
    /\ Returned("layering")
    /\ Len(wallets) = 11
    /\ Len(ret.transactions) = 15

\* C12: two runs of generate_dataset on the same configuration and the same
\* seed return the same sequence of records: same wallets, amounts,
\* timestamps and order.
C12_SameSeedSameDataset ==
    (program = "seeded" /\ pc = <<"done", "done">>) =>
        all_transactions[1] = all_transactions[2]

\* C13: on every pool of at least one wallet, every run of generate_dataset,
\* in either script, eventually returns its dataset or fails; no loop that
\* draws a background record's wallets goes on for ever.
C13_EveryRunTerminates ==
    Len(wallets) >= 1 => <>(pc \in {"done", "failed"})

\* the instant of the k-th record of the returned list
TimeOf(k) == ParseIso(ret.transactions[k].timestamp)
Before(t1, t2) == NotAfter(t1, t2) /\ t1 # t2

\* the number of first-phase records of a returned two-phase instance, and
\* for layering the records of levels 0 and 1
FirstPhase ==
    CASE pc \in {"laundering_chain", "laundering_chain5"} -> Len(ret.transactions) \div 2
      [] pc = "passthrough" -> ret.drawn[1]
      [] pc = "mixer" -> ret.drawn[1]
      [] pc = "layering" -> 3
      [] OTHER -> 0

\* C14: in every topology instance the timestamps strictly increase in
\* generation order; every first-phase record is before every second-phase
\* record (fan-out before fan-in, inflow before outflow, layering level 0
\* before level 1 before level 2); and the mixer's first outflow is at least
\* 600 seconds after its last inflow.
C14_TimeOrderedInstance ==
    (pc \notin {"idle", "normal"} /\ ret.error = "") =>
        LET n == Len(ret.transactions)
        IN  /\ \A k \in 1..(n - 1) : Before(TimeOf(k), TimeOf(k + 1))
            /\ \A a \in 1..FirstPhase : \A b \in (FirstPhase + 1)..n :
                   Before(TimeOf(a), TimeOf(b))
            /\ pc = "layering" =>
                   \A a \in 4..9 : \A b \in 10..15 : Before(TimeOf(a), TimeOf(b))
            /\ pc = "mixer" =>
                   NotAfter(AddSeconds(TimeOf(FirstPhase), 600), TimeOf(FirstPhase + 1))

\* a mixer instance whose first outflow is 630 seconds after its last
\* inflow (the shortest gap and the shortest mixing delay), on a base
\* timestamp with a microsecond part
C14_Witness ==
    /\ Returned("mixer")
    /\ TimeOf(ret.drawn[1] + 1) = AddSeconds(TimeOf(ret.drawn[1]), 630)
    /\ TimeOf(1).us # 0

\* the amount of the k-th record of the returned list, in micro-tokens
AmountOf(k) == ret.transactions[k].amount
Abs(x) == IF x < 0 THEN -x ELSE x

\* C15: in every layering instance (records 1..3 level 0, 4..9 level 1,
\* 10..15 level 2) each level-1 wallet sends in total no more than it
\* received; each level-2 wallet forwards 0.9 of what it received, up to
\* the rounding of the two amounts; and the total entering the aggregation
\* wallet is 0.9 of the total entering level 2, up to rounding.
C15_LayeringValueFlow ==
    Returned("layering") =>
        /\ \A j \in 1..3 : AmountOf(2 * j + 2) + AmountOf(2 * j + 3) <= AmountOf(j)
        /\ \A m \in 1..6 : Abs(10 * AmountOf(9 + m) - 9 * AmountOf(3 + m)) <= 10
        /\ Abs(10 * SumSeq([m \in 1..6 |-> AmountOf(9 + m)])
               - 9 * SumSeq([m \in 1..6 |-> AmountOf(3 + m)])) <= 60

\* what the mixer ret.roles[1] received and what it sent
MixerIn(r) ==
    SumSeq([k \in 1..Len(r.transactions) |->
               IF r.transactions[k].Dest_wallet = r.roles[1]
               THEN r.transactions[k].amount ELSE 0])
MixerOut(r) ==
    SumSeq([k \in 1..Len(r.transactions) |->
               IF r.transactions[k].Source_wallet = r.roles[1]
               THEN r.transactions[k].amount ELSE 0])

\* the shape of a mixer instance with U users: 2U records, U inflows from
\* the users then U outflows to the output wallets, the output wallets
\* pairwise distinct and none of them a user, the mixer not a pool wallet
MixerShape ==
    LET U == ret.drawn[1]
        users == SubSeq(ret.roles, 2, U + 1)
        outputs == SubSeq(ret.roles, U + 2, 2 * U + 1)
    IN  /\ U \in 4..7
        /\ Len(ret.roles) = 2 * U + 1
        /\ Len(ret.transactions) = 2 * U
        /\ \A k \in 1..U :
             /\ ret.transactions[k].Source_wallet = users[k]
             /\ ret.transactions[k].Dest_wallet = ret.roles[1]
             /\ ret.transactions[U + k].Source_wallet = ret.roles[1]
             /\ ret.transactions[U + k].Dest_wallet = outputs[k]
        /\ Distinct(outputs)
        /\ Range(outputs) \cap Range(users) = {}
        /\ ret.roles[1] \notin Range(wallets)

HighestShare(x) == x + 37 * (x \div 2000) + (37 * (x % 2000)) \div 2000

Horizon == IF program = "five" THEN cfg.horizon_days * 86400 ELSE TimeSpan

\* C17: every record of either assembler's list, background or suspicious,
\* has its timestamp between the start date and the end date of the run.
C17_WithinHorizon ==
    \A k \in 1..Len(all_transactions) :
        LET t == ParseIso(all_transactions[k].timestamp)
        IN  /\ NotAfter([s |-> 0, us |-> 0], t)
            /\ NotAfter(t, [s |-> Horizon, us |-> 0])

====
